---- MODULE Spec2Model ----
(***************************************************************************)
(* Model of the A2A dispatcher: the protocol client (A2AClient), the       *)
(* dispatcher (DispatcherAgent) of src/agent.py and the chat input handler *)
(* with its event loop of src/main.py.                                     *)
(*                                                                         *)
(* SpecClient  calls of discover_agent, send_task and send_task_subscribe  *)
(*           made one after the other on one A2AClient instance.           *)
(* Spec      one chat input handled from decide_agent to the history       *)
(*           append (or to an exception leaving the handler).              *)
(* SpecConc  several threads calling send_task / send_task_subscribe on    *)
(*           one A2AClient instance, interleaved at every access of the    *)
(*           instance attribute task_id.                                   *)
(***************************************************************************)
EXTENDS Integers, Sequences, FiniteSets, TLC

VARIABLES
    pc,              \* position of the chat input handler (main.py:47-104)
    agent_type,      \* main.py:59, the label returned by decide_agent
    client,          \* main.py:63, the value returned by process_query_stream
    raised,          \* the call out of which an exception propagated, or "none"
    requests,        \* the HTTP POSTs issued to the remote agents, in order
    replies,         \* what the remote agent did with each POST, in the same order
    conn,            \* per agent: the streaming response's connection
    final_response,  \* main.py:67
    seen,            \* the events the loop of main.py:74 has been handed so far
    messages,        \* st.session_state.messages (main.py:27)
    task_id,         \* per client: the instance attribute self.task_id
    session_id,      \* per client: self.session_id (agent.py:23)
    nextId,          \* the number of task ids drawn so far (os.urandom)
    th               \* SpecConc: per thread, its position and its local payload

vars == <<pc, agent_type, client, raised, requests, replies, conn, final_response, seen,
          messages, task_id, session_id, nextId, th>>

----------------------------------------------------------------------------
(* Bounds *)

MaxEvents == 2      \* events delivered by one stream
MaxParts == 2       \* parts in one message
NThreads == 2       \* SpecConc: concurrent calls on one client
MaxCalls == 2       \* SpecClient: calls made one after the other on one client

----------------------------------------------------------------------------
(* Values *)

Agents == {"sql", "rag"}

\* The text of the chat input (main.py:47).
Query == "q"

\* A Python value as far as the code tells values apart: a str (val, "" when
\* empty), the empty dict {} of a failed send_task, an SSEClient, another
\* truthy non-str object, or None.
Str(s) == [kind |-> "str", val |-> s]
EmptyDict == [kind |-> "dict", val |-> ""]
StreamClient == [kind |-> "stream", val |-> ""]
OtherObject == [kind |-> "obj", val |-> "obj"]
None == [kind |-> "none", val |-> ""]

Truthy(v) == \/ v.kind = "str" /\ v.val # ""
             \/ v.kind \in {"stream", "obj"}

Texts == {"a", "b"}

TextPart(t) == [type |-> "text", text |-> t]
DataPart == [type |-> "data", text |-> ""]
Parts == {TextPart(t) : t \in Texts} \cup {DataPart}

PartsLists == UNION {[1..n -> Parts] : n \in 0..MaxParts}

\* status["message"]: present is FALSE when result has no "status", the status
\* has no "message", or the message is falsy (main.py:83-85 treats the three
\* alike).
NoMessage == [present |-> FALSE, parts |-> <<>>]
Messages == {NoMessage} \cup {[present |-> TRUE, parts |-> p] : p \in PartsLists}

Errors == {"e1"}
NoError == "none"

\* One server-sent event as the loop sees it: event.data empty (heartbeat),
\* data on which json.loads or a subscript raises (malformed), or a JSON
\* envelope with an optional "result" and an optional "error".
Heartbeat == [kind |-> "heartbeat", hasResult |-> FALSE, msg |-> NoMessage,
              final |-> FALSE, hasError |-> FALSE, error |-> NoError]
Malformed == [kind |-> "malformed", hasResult |-> FALSE, msg |-> NoMessage,
              final |-> FALSE, hasError |-> FALSE, error |-> NoError]
Envelope(hr, m, f, he, er) ==
    [kind |-> "envelope", hasResult |-> hr, msg |-> m, final |-> f,
     hasError |-> he, error |-> er]
Envelopes ==
    {Envelope(TRUE, m, f, FALSE, NoError) : m \in Messages, f \in BOOLEAN}
    \cup {Envelope(TRUE, m, f, TRUE, er) : m \in Messages, f \in BOOLEAN, er \in Errors}
    \cup {Envelope(FALSE, NoMessage, FALSE, TRUE, er) : er \in Errors}
    \cup {Envelope(FALSE, NoMessage, FALSE, FALSE, NoError)}
Events == {Heartbeat, Malformed} \cup Envelopes

\* A reply of the reasoning collaborator (ConversableAgent.generate_reply) is
\* read only through response['content'].
Labels == {"sql", "rag", "nothing", "maybe-sql"}
ClassifierContents == {Str(l) : l \in Labels} \cup {Str(""), OtherObject, None}
AnswerContents == {Str("hello"), Str(""), None}
DefaultAnswer == "I couldn't process your query."

\* What the remote agent answers to tasks/send: the POST raises (refused), or
\* a response arrives whose body is JSON or not, whose status is a success or
\* not, and whose JSON holds result.status.message.parts or not.
SendResponse(tr, js, ok, sh, ps) ==
    [transport |-> tr, json |-> js, http_ok |-> ok, shaped |-> sh, parts |-> ps]
SendResponses ==
    {SendResponse("refused", FALSE, FALSE, FALSE, <<>>),
     SendResponse("ok", FALSE, TRUE, FALSE, <<>>),
     SendResponse("ok", TRUE, TRUE, FALSE, <<>>)}
    \cup {SendResponse("ok", TRUE, ok, TRUE, p) : ok \in BOOLEAN, p \in PartsLists}

\* What happens to the POST of tasks/sendSubscribe: it raises (refused), the
\* response has a failing status (httperr), or the stream is established.
SubscribeOutcomes == {"refused", "httperr", "ok"}

\* One entry of replies: the outcome of a tasks/sendSubscribe POST, or the
\* response to a tasks/send POST.
NoResponse == SendResponse("none", FALSE, FALSE, FALSE, <<>>)
SubscribeReply(outcome) == [method |-> "tasks/sendSubscribe", outcome |-> outcome,
                            resp |-> NoResponse]
SendReply(resp) == [method |-> "tasks/send", outcome |-> "response", resp |-> resp]

----------------------------------------------------------------------------
(* A2AClient *)

\* Mutant of FreshTaskId: the task id is drawn once and used by every call.
FreshTaskIdReused(n) == 1

\* agent.py:44 and agent.py:83: f"task-{os.urandom(8).hex()}", the n-th draw.
FreshTaskId(n) == n + 1

\* agent.py:46-59
SendPayload(a, idRead, paramsIdRead, sid, message) ==
    [agent |-> a, method |-> "tasks/send",
     id |-> [task |-> idRead, suffix |-> ""],
     params_id |-> paramsIdRead, sessionId |-> sid, message |-> message]

\* Mutant of SubscribePayload: the subscribe request carries a session id of
\* its own instead of the instance's.
SubscribePayloadOwnSession(a, idRead, paramsIdRead, sid, message) ==
    [agent |-> a, method |-> "tasks/sendSubscribe",
     id |-> [task |-> idRead, suffix |-> "-send"],
     params_id |-> paramsIdRead, sessionId |-> "new", message |-> message]

\* agent.py:86-99
SubscribePayload(a, idRead, paramsIdRead, sid, message) ==
    [agent |-> a, method |-> "tasks/sendSubscribe",
     id |-> [task |-> idRead, suffix |-> "-send"],
     params_id |-> paramsIdRead, sessionId |-> sid, message |-> message]

\* agent.py:61-72: the value send_task returns for a backend response.
send_task(resp) ==
    IF resp.transport # "ok" THEN EmptyDict            \* requests.post raises
    ELSE IF ~resp.json THEN EmptyDict                  \* response.json() raises
    ELSE IF ~resp.http_ok THEN EmptyDict               \* raise_for_status raises
    ELSE IF ~resp.shaped THEN EmptyDict                \* KeyError / TypeError
    ELSE IF resp.parts = <<>> THEN EmptyDict           \* IndexError on parts[0]
    ELSE IF resp.parts[1].type # "text" THEN EmptyDict \* KeyError on 'text'
    ELSE Str(resp.parts[1].text)

\* Mutant of send_task_subscribe: the SSEClient is not returned.
send_task_subscribe_drops_client(outcome) == None

\* agent.py:101-116: the value send_task_subscribe returns.
send_task_subscribe(outcome) ==
    IF outcome = "ok" THEN StreamClient ELSE None

\* agent.py:102-111: the connection after the POST. A response was received
\* for "ok" and for "httperr" (stream=True keeps its connection); the code
\* closes neither.
ConnAfterSubscribe(outcome) ==
    IF outcome = "refused" THEN "none" ELSE "open"

\* agent.py:62-69: the first statement of send_task that raises for a
\* backend response, or "none".
SendFailure(resp) ==
    IF resp.transport # "ok" THEN "post"
    ELSE IF ~resp.json THEN "json"
    ELSE IF ~resp.http_ok THEN "raise_for_status"
    ELSE IF ~resp.shaped \/ resp.parts = <<>> THEN "subscript"
    ELSE IF resp.parts[1].type # "text" THEN "subscript"
    ELSE "none"

\* Mutant of SendTryCovers: the try block opens after requests.post.
SendTryCoversAfterPost(stmt) ==
    stmt \in {"json", "raise_for_status", "subscript"}

\* agent.py:61-70: the statements of send_task inside its try block.
SendTryCovers(stmt) ==
    stmt \in {"post", "json", "raise_for_status", "subscript"}

\* agent.py:35-72: an exception leaves send_task.
send_task_raises(resp) ==
    SendFailure(resp) # "none" /\ ~SendTryCovers(SendFailure(resp))

\* agent.py:102-111: the first statement of send_task_subscribe that raises.
SubscribeFailure(outcome) ==
    IF outcome = "refused" THEN "post"
    ELSE IF outcome = "httperr" THEN "raise_for_status"
    ELSE "none"

\* agent.py:101-114: the statements of send_task_subscribe inside its try.
SubscribeTryCovers(stmt) ==
    stmt \in {"post", "raise_for_status"}

\* agent.py:74-116: an exception leaves send_task_subscribe.
send_task_subscribe_raises(outcome) ==
    SubscribeFailure(outcome) # "none" /\ ~SubscribeTryCovers(SubscribeFailure(outcome))

\* What the agent answers to GET /.well-known/agent.json: the GET raises, or
\* a response arrives with a status and a body that is JSON or not.
DiscoverResponses ==
    {SendResponse("refused", FALSE, FALSE, FALSE, <<>>)}
    \cup {SendResponse("ok", js, ok, FALSE, <<>>) : js \in BOOLEAN, ok \in BOOLEAN}

\* The agent card response.json() returns.
AgentCard == [kind |-> "obj", val |-> "card"]

\* agent.py:28-30: the first statement of discover_agent that raises.
DiscoverFailure(resp) ==
    IF resp.transport # "ok" THEN "get"
    ELSE IF ~resp.http_ok THEN "raise_for_status"
    ELSE IF ~resp.json THEN "json"
    ELSE "none"

\* agent.py:27-31: the statements of discover_agent inside its try block.
DiscoverTryCovers(stmt) ==
    stmt \in {"get", "raise_for_status", "json"}

\* agent.py:25-33: the value discover_agent returns.
discover_agent(resp) ==
    IF DiscoverFailure(resp) = "none" THEN AgentCard ELSE EmptyDict

\* agent.py:25-33: an exception leaves discover_agent.
discover_agent_raises(resp) ==
    DiscoverFailure(resp) # "none" /\ ~DiscoverTryCovers(DiscoverFailure(resp))

\* agent.py:28: the GET of the agent card carries no task and no session.
DiscoverRequest(a) ==
    [agent |-> a, method |-> "GET",
     id |-> [task |-> 0, suffix |-> ""],
     params_id |-> 0, sessionId |-> "", message |-> ""]
DiscoverReply(resp) == [method |-> "GET", outcome |-> "response", resp |-> resp]

----------------------------------------------------------------------------
(* The event loop of main.py *)

InitialResponse == [status |-> "incomplete", content |-> "", error |-> NoError]

\* Mutant of WriteParts: the loop over the parts stops at the first
\* text-typed part.
RECURSIVE WritePartsFirstOnly(_, _)
WritePartsFirstOnly(content, parts) ==
    IF parts = <<>> THEN content
    ELSE IF Head(parts).type = "text" THEN Head(parts).text
    ELSE WritePartsFirstOnly(content, Tail(parts))

\* main.py:87-90: every text-typed part overwrites content, in order.
RECURSIVE WriteParts(_, _)
WriteParts(content, parts) ==
    IF parts = <<>> THEN content
    ELSE WriteParts(IF Head(parts).type = "text" THEN Head(parts).text ELSE content,
                    Tail(parts))

\* Mutant of HandleStatus: a content already recorded is kept.
HandleStatusKeepFirst(fr, msg) ==
    IF msg.present /\ fr.content = ""
    THEN [fr EXCEPT !.content = WriteParts(fr.content, msg.parts)]
    ELSE fr

\* main.py:83-90
HandleStatus(fr, msg) ==
    IF msg.present THEN [fr EXCEPT !.content = WriteParts(fr.content, msg.parts)]
    ELSE fr

\* main.py:98-101
HandleError(fr, e) ==
    [fr EXCEPT !.status = "error", !.error = e.error]

\* Mutant of SkipsEvent: the test of main.py:75-76 is missing, an event
\* without data reaches json.loads.
SkipsEventNever(e) == FALSE

\* main.py:75-76
SkipsEvent(e) == e.kind = "heartbeat"

\* main.py:78-100: json.loads and every subscript of the iteration succeed.
Parses(e) == e.kind = "envelope"

\* Mutant of ApplyEvent: the break of main.py:101 is missing, the loop goes
\* on after an error.
ApplyEventNoBreakOnError(fr, e) ==
    IF SkipsEvent(e) THEN [fr |-> fr, stop |-> FALSE, exc |-> FALSE]
    ELSE IF ~Parses(e) THEN [fr |-> fr, stop |-> FALSE, exc |-> TRUE]
    ELSE LET fr1 == IF e.hasResult THEN HandleStatus(fr, e.msg) ELSE fr IN
         IF e.hasResult /\ e.final
         THEN [fr |-> [fr1 EXCEPT !.status = "complete"], stop |-> TRUE, exc |-> FALSE]
         ELSE IF e.hasError
         THEN [fr |-> HandleError(fr1, e), stop |-> FALSE, exc |-> FALSE]
         ELSE [fr |-> fr1, stop |-> FALSE, exc |-> FALSE]

\* Mutant of ApplyEvent: the break of main.py:95 is missing, the loop goes
\* on after a final event.
ApplyEventNoBreakOnFinal(fr, e) ==
    IF SkipsEvent(e) THEN [fr |-> fr, stop |-> FALSE, exc |-> FALSE]
    ELSE IF ~Parses(e) THEN [fr |-> fr, stop |-> FALSE, exc |-> TRUE]
    ELSE LET fr1 == IF e.hasResult THEN HandleStatus(fr, e.msg) ELSE fr
             fr2 == IF e.hasResult /\ e.final
                    THEN [fr1 EXCEPT !.status = "complete"] ELSE fr1 IN
         IF e.hasError
         THEN [fr |-> HandleError(fr2, e), stop |-> TRUE, exc |-> FALSE]
         ELSE [fr |-> fr2, stop |-> FALSE, exc |-> FALSE]

\* main.py:75-101, one iteration: the response after it, whether the loop is
\* left by break (stop), and whether an exception left it (exc).
ApplyEvent(fr, e) ==
    IF SkipsEvent(e) THEN [fr |-> fr, stop |-> FALSE, exc |-> FALSE]
    ELSE IF ~Parses(e) THEN [fr |-> fr, stop |-> FALSE, exc |-> TRUE]
    ELSE LET fr1 == IF e.hasResult THEN HandleStatus(fr, e.msg) ELSE fr IN
         IF e.hasResult /\ e.final
         THEN [fr |-> [fr1 EXCEPT !.status = "complete"], stop |-> TRUE, exc |-> FALSE]
         ELSE IF e.hasError
         THEN [fr |-> HandleError(fr1, e), stop |-> TRUE, exc |-> FALSE]
         ELSE [fr |-> fr1, stop |-> FALSE, exc |-> FALSE]

\* main.py:67-101 over a whole stream: the response when the loop is left and
\* whether an exception left it. Events after a break or an exception are
\* not read.
RECURSIVE FoldFrom(_, _)
FoldFrom(fr, evs) ==
    IF evs = <<>> THEN [fr |-> fr, exc |-> FALSE]
    ELSE LET r == ApplyEvent(fr, Head(evs)) IN
         IF r.exc THEN [fr |-> r.fr, exc |-> TRUE]
         ELSE IF r.stop THEN [fr |-> r.fr, exc |-> FALSE]
         ELSE FoldFrom(r.fr, Tail(evs))

\* main.py:104
AssistantEntry(fr) == [role |-> "assistant", content |-> fr.content]

----------------------------------------------------------------------------
(* DispatcherAgent *)

\* agent.py:157-160
decide_agent(content) ==
    IF Truthy(content) /\ content.kind = "str" THEN content.val ELSE "nothing"

\* Mutant of Target: a label that is neither 'sql' nor 'rag' takes the last
\* agent's branch (an else in place of the elif of agent.py:179).
TargetDefaultRag(label) ==
    IF label = "sql" THEN "sql" ELSE "rag"

\* agent.py:172, 179, 186 (and 195, 197, 199): the branch a label takes.
Target(label) ==
    IF label = "sql" THEN "sql"
    ELSE IF label = "rag" THEN "rag"
    ELSE "local"

\* agent.py:192 and agent.py:204
LocalAnswer(content) ==
    IF Truthy(content) THEN content ELSE Str(DefaultAnswer)

----------------------------------------------------------------------------
(* Spec: one chat input *)

Init ==
    /\ pc = "decide"
    /\ agent_type = "unset"
    /\ client = None
    /\ raised = "none"
    /\ requests = <<>>
    /\ replies = <<>>
    /\ conn = [a \in Agents |-> "none"]
    /\ final_response = InitialResponse
    /\ seen = <<>>
    /\ messages = <<[role |-> "user", content |-> Query]>>
    /\ task_id = [a \in Agents |-> 0]
    /\ session_id = [a \in Agents |-> a]
    /\ nextId = 0
    /\ th = <<>>

\* main.py:59 with agent.py:153-160. generate_reply may raise; main.py has
\* no handler around it.
DecideAgent ==
    /\ pc = "decide"
    /\ \/ \E c \in ClassifierContents :
             /\ agent_type' = decide_agent(c)
             /\ pc' = "route"
             /\ UNCHANGED raised
       \/ /\ pc' = "crashed"
          /\ raised' = "decide_agent"
          /\ UNCHANGED agent_type
    /\ UNCHANGED <<client, requests, replies, conn, final_response, seen,
                   messages, task_id, session_id, nextId, th>>

\* agent.py:172-174 and agent.py:179-181: send_task_subscribe on the agent
\* the label names.
RouteSubscribe ==
    /\ pc = "route"
    /\ Target(agent_type) \in Agents
    /\ \E outcome \in SubscribeOutcomes :
         LET a == Target(agent_type)
             tid == FreshTaskId(nextId)
             r == send_task_subscribe(outcome) IN
         /\ task_id' = [task_id EXCEPT ![a] = tid]
         /\ nextId' = nextId + 1
         /\ requests' = Append(requests, SubscribePayload(a, tid, tid, session_id[a], Query))
         /\ replies' = Append(replies, SubscribeReply(outcome))
         /\ conn' = [conn EXCEPT ![a] = ConnAfterSubscribe(outcome)]
         /\ IF r = None
            THEN pc' = "fallback" /\ UNCHANGED client
            ELSE pc' = "returned" /\ client' = r
    /\ UNCHANGED <<agent_type, raised, final_response, seen, messages, session_id, th>>

\* Mutant of FallbackAgent: the fallback calls the other client.
FallbackAgentOther(a) == IF a = "sql" THEN "rag" ELSE "sql"

\* The agent send_task is called on when the stream client is None.
FallbackAgent(a) == a

\* agent.py:175-177 and agent.py:182-184
RouteFallback ==
    /\ pc = "fallback"
    /\ \E resp \in SendResponses :
         LET a == FallbackAgent(Target(agent_type))
             tid == FreshTaskId(nextId) IN
         /\ task_id' = [task_id EXCEPT ![a] = tid]
         /\ nextId' = nextId + 1
         /\ requests' = Append(requests, SendPayload(a, tid, tid, session_id[a], Query))
         /\ replies' = Append(replies, SendReply(resp))
         /\ client' = send_task(resp)
         /\ pc' = "returned"
    /\ UNCHANGED <<agent_type, raised, conn, final_response, seen, messages,
                   session_id, th>>

\* agent.py:186-192: the dispatcher's own reply; an exception of
\* generate_reply or of the subscript enters the except clause.
RouteLocal ==
    /\ pc = "route"
    /\ Target(agent_type) = "local"
    /\ \/ \E c \in AnswerContents :
             /\ client' = LocalAnswer(c)
             /\ pc' = "returned"
       \/ /\ pc' = "except"
          /\ UNCHANGED client
    /\ UNCHANGED <<agent_type, raised, requests, replies, conn, final_response,
                   seen, messages, task_id, session_id, nextId, th>>

\* agent.py:193-204: the except clause. Its calls are not guarded: an
\* exception of generate_reply here leaves process_query_stream.
RouteExcept ==
    /\ pc = "except"
    /\ IF Target(agent_type) \in Agents
       THEN \E resp \in SendResponses :
              LET a == Target(agent_type)
                  tid == FreshTaskId(nextId) IN
              /\ task_id' = [task_id EXCEPT ![a] = tid]
              /\ nextId' = nextId + 1
              /\ requests' = Append(requests, SendPayload(a, tid, tid, session_id[a], Query))
              /\ replies' = Append(replies, SendReply(resp))
              /\ client' = send_task(resp)
              /\ pc' = "returned"
              /\ UNCHANGED raised
       ELSE /\ \/ \E c \in AnswerContents :
                    /\ client' = LocalAnswer(c)
                    /\ pc' = "returned"
                    /\ UNCHANGED raised
               \/ /\ pc' = "crashed"
                  /\ raised' = "process_query_stream"
                  /\ UNCHANGED client
            /\ UNCHANGED <<requests, replies, task_id, nextId>>
    /\ UNCHANGED <<agent_type, conn, final_response, seen, messages, session_id, th>>

\* main.py:64-74; for a str up to main.py:71, which sets the status before
\* main.py:72 writes the content. A value that is neither a str nor an
\* SSEClient has no events(): AttributeError leaves the handler.
HandleResult ==
    /\ pc = "returned"
    /\ IF client.kind = "str"
       THEN /\ final_response' = [InitialResponse EXCEPT !.status = "complete"]
            /\ pc' = "content"
            /\ UNCHANGED <<messages, raised>>
       ELSE IF client.kind = "stream"
       THEN /\ final_response' = InitialResponse
            /\ pc' = "fold"
            /\ UNCHANGED <<messages, raised>>
       ELSE /\ final_response' = InitialResponse
            /\ pc' = "crashed"
            /\ raised' = "client.events"
            /\ UNCHANGED messages
    /\ UNCHANGED <<agent_type, client, requests, replies, conn, seen, task_id,
                   session_id, nextId, th>>

\* main.py:72 and main.py:104: the plain-text branch writes the content of a
\* response whose status is already complete, then the history is appended.
WriteContent ==
    /\ pc = "content"
    /\ final_response' = [final_response EXCEPT !.content = client.val]
    /\ messages' = Append(messages, AssistantEntry(final_response'))
    /\ pc' = "done"
    /\ UNCHANGED <<agent_type, client, raised, requests, replies, conn, seen,
                   task_id, session_id, nextId, th>>

\* main.py:74-101, one event of the stream, and main.py:104 when the loop is
\* left by break. json.loads or a subscript raising leaves the handler.
FoldEvent ==
    /\ pc = "fold"
    /\ Len(seen) < MaxEvents
    /\ \E e \in Events :
         LET r == ApplyEvent(final_response, e) IN
         /\ seen' = Append(seen, e)
         /\ final_response' = r.fr
         /\ IF r.exc
            THEN pc' = "crashed" /\ raised' = "event loop" /\ UNCHANGED messages
            ELSE IF r.stop
            THEN /\ pc' = "done"
                 /\ messages' = Append(messages, AssistantEntry(r.fr))
                 /\ UNCHANGED raised
            ELSE pc' = "fold" /\ UNCHANGED <<messages, raised>>
    /\ UNCHANGED <<agent_type, client, requests, replies, conn, task_id,
                   session_id, nextId, th>>

\* Mutant of StreamEnd: the end of the stream marks the response complete.
StreamEndMarksComplete ==
    /\ pc = "fold"
    /\ pc' = "done"
    /\ final_response' = [final_response EXCEPT !.status = "complete"]
    /\ messages' = Append(messages, AssistantEntry(final_response'))
    /\ conn' = [conn EXCEPT ![Target(agent_type)] = "closed"]
    /\ UNCHANGED <<agent_type, client, raised, requests, replies, seen,
                   task_id, session_id, nextId, th>>

\* main.py:74 and main.py:104: the server closes the stream, events() is
\* exhausted; the transport releases the connection of a fully read body.
StreamEnd ==
    /\ pc = "fold"
    /\ pc' = "done"
    /\ messages' = Append(messages, AssistantEntry(final_response))
    /\ conn' = [conn EXCEPT ![Target(agent_type)] = "closed"]
    /\ UNCHANGED <<agent_type, client, raised, requests, replies, final_response, seen,
                   task_id, session_id, nextId, th>>

\* main.py:74: reading the next event raises (connection lost); the transport
\* drops the broken connection, the exception leaves the handler.
StreamError ==
    /\ pc = "fold"
    /\ pc' = "crashed"
    /\ raised' = "events()"
    /\ conn' = [conn EXCEPT ![Target(agent_type)] = "closed"]
    /\ UNCHANGED <<agent_type, client, requests, replies, final_response, seen, messages,
                   task_id, session_id, nextId, th>>

Next ==
    \/ DecideAgent
    \/ RouteSubscribe
    \/ RouteFallback
    \/ RouteLocal
    \/ RouteExcept
    \/ HandleResult
    \/ WriteContent
    \/ FoldEvent
    \/ StreamEnd
    \/ StreamError

Spec == Init /\ [][Next]_vars

----------------------------------------------------------------------------
(* SpecConc: concurrent calls on one A2AClient instance *)

Threads == 1..NThreads
Methods == {"tasks/send", "tasks/sendSubscribe"}

\* The client instance the threads share.
Shared == "sql"

IdleThread == [pc |-> "idle", method |-> "none", id |-> 0, params_id |-> 0]

InitConc ==
    /\ pc = "threads"
    /\ agent_type = "unset"
    /\ client = None
    /\ raised = "none"
    /\ requests = <<>>
    /\ replies = <<>>
    /\ conn = [a \in Agents |-> "none"]
    /\ final_response = InitialResponse
    /\ seen = <<>>
    /\ messages = <<>>
    /\ task_id = [a \in Agents |-> 0]
    /\ session_id = [a \in Agents |-> a]
    /\ nextId = 0
    /\ th = [t \in Threads |-> IdleThread]

\* agent.py:44 and agent.py:83: the call stores its fresh task id in the
\* instance attribute self.task_id.
AssignTaskId(t) ==
    /\ pc = "threads"
    /\ th[t].pc = "idle"
    /\ \E m \in Methods :
         th' = [th EXCEPT ![t] = [@ EXCEPT !.pc = "id", !.method = m]]
    /\ task_id' = [task_id EXCEPT ![Shared] = FreshTaskId(nextId)]
    /\ nextId' = nextId + 1
    /\ UNCHANGED <<pc, agent_type, client, raised, requests, replies, conn,
                   final_response, seen, messages, session_id>>

\* agent.py:48 and agent.py:88: "id" of the envelope reads self.task_id.
ReadEnvelopeId(t) ==
    /\ pc = "threads"
    /\ th[t].pc = "id"
    /\ th' = [th EXCEPT ![t] = [@ EXCEPT !.pc = "params", !.id = task_id[Shared]]]
    /\ UNCHANGED <<pc, agent_type, client, raised, requests, replies, conn,
                   final_response, seen, messages, task_id, session_id, nextId>>

\* agent.py:51 and agent.py:91: params "id" reads self.task_id again.
ReadParamsId(t) ==
    /\ pc = "threads"
    /\ th[t].pc = "params"
    /\ th' = [th EXCEPT ![t] = [@ EXCEPT !.pc = "post", !.params_id = task_id[Shared]]]
    /\ UNCHANGED <<pc, agent_type, client, raised, requests, replies, conn,
                   final_response, seen, messages, task_id, session_id, nextId>>

\* agent.py:62-66 and agent.py:102-110: the payload is posted.
Post(t) ==
    /\ pc = "threads"
    /\ th[t].pc = "post"
    /\ requests' = Append(requests,
         IF th[t].method = "tasks/send"
         THEN SendPayload(Shared, th[t].id, th[t].params_id, session_id[Shared], Query)
         ELSE SubscribePayload(Shared, th[t].id, th[t].params_id, session_id[Shared], Query))
    /\ th' = [th EXCEPT ![t] = [@ EXCEPT !.pc = "posted"]]
    /\ UNCHANGED <<pc, agent_type, client, raised, replies, conn, final_response,
                   seen, messages, task_id, session_id, nextId>>

NextConc ==
    \E t \in Threads :
        \/ AssignTaskId(t)
        \/ ReadEnvelopeId(t)
        \/ ReadParamsId(t)
        \/ Post(t)

SpecConc == InitConc /\ [][NextConc]_vars

----------------------------------------------------------------------------
(* SpecClient: calls made one after the other on one A2AClient instance *)

InitClient ==
    /\ pc = "client"
    /\ agent_type = "unset"
    /\ client = None
    /\ raised = "none"
    /\ requests = <<>>
    /\ replies = <<>>
    /\ conn = [a \in Agents |-> "none"]
    /\ final_response = InitialResponse
    /\ seen = <<>>
    /\ messages = <<>>
    /\ task_id = [a \in Agents |-> 0]
    /\ session_id = [a \in Agents |-> a]
    /\ nextId = 0
    /\ th = <<>>

CanCall == pc = "client" /\ raised = "none" /\ Len(replies) < MaxCalls

\* agent.py:25-33
CallDiscoverAgent ==
    /\ CanCall
    /\ \E resp \in DiscoverResponses :
         /\ requests' = Append(requests, DiscoverRequest(Shared))
         /\ replies' = Append(replies, DiscoverReply(resp))
         /\ IF discover_agent_raises(resp)
            THEN raised' = "discover_agent" /\ UNCHANGED client
            ELSE client' = discover_agent(resp) /\ UNCHANGED raised
    /\ UNCHANGED <<pc, agent_type, conn, final_response, seen, messages, task_id,
                   session_id, nextId, th>>

\* agent.py:35-72
CallSendTask ==
    /\ CanCall
    /\ \E resp \in SendResponses :
         LET tid == FreshTaskId(nextId) IN
         /\ task_id' = [task_id EXCEPT ![Shared] = tid]
         /\ nextId' = nextId + 1
         /\ requests' = Append(requests,
                SendPayload(Shared, tid, tid, session_id[Shared], Query))
         /\ replies' = Append(replies, SendReply(resp))
         /\ IF send_task_raises(resp)
            THEN raised' = "send_task" /\ UNCHANGED client
            ELSE client' = send_task(resp) /\ UNCHANGED raised
    /\ UNCHANGED <<pc, agent_type, conn, final_response, seen, messages,
                   session_id, th>>

\* agent.py:74-116
CallSendTaskSubscribe ==
    /\ CanCall
    /\ \E outcome \in SubscribeOutcomes :
         LET tid == FreshTaskId(nextId) IN
         /\ task_id' = [task_id EXCEPT ![Shared] = tid]
         /\ nextId' = nextId + 1
         /\ requests' = Append(requests,
                SubscribePayload(Shared, tid, tid, session_id[Shared], Query))
         /\ replies' = Append(replies, SubscribeReply(outcome))
         /\ conn' = [conn EXCEPT ![Shared] = ConnAfterSubscribe(outcome)]
         /\ IF send_task_subscribe_raises(outcome)
            THEN raised' = "send_task_subscribe" /\ UNCHANGED client
            ELSE client' = send_task_subscribe(outcome) /\ UNCHANGED raised
    /\ UNCHANGED <<pc, agent_type, final_response, seen, messages, session_id, th>>

NextClient ==
    \/ CallDiscoverAgent
    \/ CallSendTask
    \/ CallSendTaskSubscribe

SpecClient == InitClient /\ [][NextClient]_vars

----------------------------------------------------------------------------
(* Vocabulary of the properties *)

Max(S) == CHOOSE x \in S : \A y \in S : y <= x
Min(S) == CHOOSE x \in S : \A y \in S : x <= y

\* The handler has ended: it reached the history append, or an exception
\* left it.
Terminated == pc \in {"done", "crashed"}

\* process_query_stream has returned or raised.
Routed == pc \in {"returned", "content", "fold", "done"}
          \/ (pc = "crashed" /\ raised # "decide_agent")

Streaming == client.kind = "stream" /\ pc \in {"fold", "done", "crashed"}

TextIdx(m) == {i \in 1..Len(m.parts) : m.parts[i].type = "text"}
HasText(m) == m.present /\ TextIdx(m) # {}
FirstTextOf(m) == m.parts[Min(TextIdx(m))].text
LastTextOf(m) == m.parts[Max(TextIdx(m))].text

IsStatusEvent(e) == e.kind = "envelope" /\ e.hasResult
\* The envelope {error: ...} of the wire protocol, without a result.
IsErrorEnvelope(e) == e.kind = "envelope" /\ e.hasError /\ ~e.hasResult

\* The positions of seen holding a status event with a truthy message, and
\* those whose message has a text-typed part.
MessageEvents == {k \in 1..Len(seen) : IsStatusEvent(seen[k]) /\ seen[k].msg.present}
TextEvents == {k \in 1..Len(seen) : IsStatusEvent(seen[k]) /\ HasText(seen[k].msg)}

\* The loop was left on a status event with final:true.
EndsInFinal ==
    /\ Streaming
    /\ pc = "done"
    /\ seen # <<>>
    /\ IsStatusEvent(seen[Len(seen)])
    /\ seen[Len(seen)].final

HistoryEntry ==
    /\ Len(messages) = 2
    /\ messages[2] = AssistantEntry(final_response)

Answered ==
    pc = "done" /\ final_response.status \in {"complete", "incomplete"} /\ HistoryEntry
AnsweredWithError ==
    pc = "done" /\ final_response.status = "error" /\ HistoryEntry

\* s with the positions outside K dropped.
RECURSIVE KeepAt(_, _, _)
KeepAt(s, K, i) ==
    IF i > Len(s) THEN <<>>
    ELSE (IF i \in K THEN <<s[i]>> ELSE <<>>) \o KeepAt(s, K, i + 1)

InsertAt(s, i, e) == SubSeq(s, 1, i) \o <<e>> \o SubSeq(s, i + 1, Len(s))

\* The sequences got from s by removing any of its heartbeats or by
\* inserting a heartbeat at any place.
HeartbeatVariants(s) ==
    LET H == {i \in 1..Len(s) : s[i] = Heartbeat} IN
    {KeepAt(s, (1..Len(s)) \ D, 1) : D \in SUBSET H}
    \cup {InsertAt(s, i, Heartbeat) : i \in 0..Len(s)}

\* The continuations of a stream by at most one further event.
Tails == {<<>>} \cup {<<e>> : e \in Events}

\* The last text-typed part of the last event read that has one.
LastRecordedText ==
    IF TextEvents = {} THEN "" ELSE LastTextOf(seen[Max(TextEvents)].msg)

\* An event that is neither a final status event nor carries an error.
NoMarker(e) ==
    /\ ~(IsStatusEvent(e) /\ e.final)
    /\ ~(e.kind = "envelope" /\ e.hasError)

\* The loop over a stream was left because the stream ended.
EndedWithoutMarker ==
    /\ client.kind = "stream"
    /\ pc = "done"
    /\ \A k \in 1..Len(seen) : NoMarker(seen[k])

\* The requests that carry a task (not the GET of the agent card).
TaskRequests == {i \in 1..Len(requests) : requests[i].method \in Methods}
SubscribeIdx == {i \in 1..Len(requests) : requests[i].method = "tasks/sendSubscribe"}
SendIdx == {i \in 1..Len(requests) : requests[i].method = "tasks/send"}

LastReply == replies[Len(replies)]

\* The response is a transport failure, a failing status or a malformed body.
FailedResponse(resp) ==
    resp.transport # "ok" \/ ~resp.http_ok \/ ~resp.json
FailedSendResponse(resp) ==
    FailedResponse(resp) \/ ~resp.shaped

\* A successful single-shot response whose message has a text-typed part.
SuccessfulWithText(resp) ==
    /\ resp.transport = "ok" /\ resp.json /\ resp.http_ok /\ resp.shaped
    /\ \E i \in 1..Len(resp.parts) : resp.parts[i].type = "text"
FirstTextPart(parts) ==
    parts[Min({i \in 1..Len(parts) : parts[i].type = "text"})].text

----------------------------------------------------------------------------
(* Properties *)

\* C1: for a decision label other than 'sql' and 'rag', no request is ever
\* issued to a remote agent and no connection to one is opened, whether the
\* dispatcher's reply succeeds, raises, or raises again in the except clause.
C1_NoneNeverContacts ==
    agent_type \notin Agents =>
        /\ requests = <<>>
        /\ replies = <<>>
        /\ \A a \in Agents : conn[a] = "none"

\* C1 witness: a query with an unknown label has been answered locally.
C1_Witness ==
    /\ pc = "done"
    /\ agent_type = "maybe-sql"
    /\ client = Str("hello")
    /\ requests = <<>>

\* C2 as amended: when the loop is left on a status event with final:true,
\* status is complete and content is the last text-typed part of the last
\* status event read whose message has a text-typed part ("" if none has).
C2_FinalLastText ==
    EndsInFinal =>
        /\ final_response.status = "complete"
        /\ final_response.content =
             IF TextEvents = {} THEN ""
             ELSE LastTextOf(seen[Max(TextEvents)].msg)

\* C2 witness: an update, then a final event whose message has two text parts.
C2_Witness ==
    /\ EndsInFinal
    /\ Len(seen) = 2
    /\ seen[1].msg.parts = <<TextPart("b")>>
    /\ seen[2].msg.parts = <<TextPart("a"), TextPart("b")>>

\* C2 as stated: when the loop is left on a status event with final:true,
\* status is complete and content is the first text-typed part of the last
\* status event that carried a non-empty message (when it has a text part).
C2_FinalFirstText ==
    EndsInFinal =>
        /\ final_response.status = "complete"
        /\ (MessageEvents # {} /\ HasText(seen[Max(MessageEvents)].msg)) =>
               final_response.content = FirstTextOf(seen[Max(MessageEvents)].msg)

\* C3: an error envelope read at position k ends the loop there with status
\* error and its payload recorded: it is the last event read, and the result
\* is the fold of every stream that continues the events read up to k.
C3_ErrorTerminates ==
    \A k \in 1..Len(seen) :
        IsErrorEnvelope(seen[k]) =>
            /\ k = Len(seen)
            /\ pc = "done"
            /\ final_response.status = "error"
            /\ final_response.error = seen[k].error
            /\ \A t \in Tails :
                 FoldFrom(InitialResponse, seen \o t)
                     = [fr |-> final_response, exc |-> FALSE]

\* C3 witness: an update with text, then an error envelope.
C3_Witness ==
    /\ pc = "done"
    /\ Len(seen) = 2
    /\ HasText(seen[1].msg)
    /\ IsErrorEnvelope(seen[2])
    /\ final_response.status = "error"

\* C4: heartbeats are no-ops: the response (and whether an exception left the
\* loop) is that of the fold of the events read with any of their heartbeats
\* removed, or with a heartbeat inserted anywhere.
C4_HeartbeatsIgnored ==
    Streaming =>
        \A s \in HeartbeatVariants(seen) :
            FoldFrom(InitialResponse, s)
                = [fr |-> final_response, exc |-> (raised = "event loop")]

\* C4 witness: a heartbeat, then a final event with text.
C4_Witness ==
    /\ EndsInFinal
    /\ Len(seen) = 2
    /\ seen[1] = Heartbeat
    /\ final_response.content = "a"

\* C5: when send_task_subscribe on the agent the label names returned None,
\* process_query_stream returns what send_task returns for the response the
\* same agent gave to a tasks/send request carrying the same query, and every
\* request went to that agent.
C5_FallbackEquivalence ==
    (/\ Routed
     /\ Target(agent_type) \in Agents
     /\ replies # <<>>
     /\ send_task_subscribe(replies[1].outcome) = None) =>
        /\ Len(requests) = 2
        /\ Len(replies) = 2
        /\ requests[2].method = "tasks/send"
        /\ requests[2].message = requests[1].message
        /\ \A i \in 1..Len(requests) : requests[i].agent = agent_type
        /\ client = send_task(replies[2].resp)

\* C5 witness: the stream was refused and the fallback returned a text.
C5_Witness ==
    /\ pc = "returned"
    /\ agent_type = "rag"
    /\ replies[1].outcome = "refused"
    /\ client = Str("a")

\* C6: a handler that has ended has an aggregated result and a chat-history
\* entry (Answered or AnsweredWithError), here for the runs in which no
\* collaborator raised and the stream neither broke nor sent unreadable data.
C6_AlwaysAnswered ==
    (Terminated /\ raised \in {"none", "client.events"}) =>
        (Answered \/ AnsweredWithError)

\* C7: no exception leaves process_query_stream.
C7_NeverPropagates ==
    raised # "process_query_stream"

\* C8: when consuming the stream of a known agent fails (an unreadable event,
\* or the connection breaking), a tasks/send request has gone to that agent.
C8_ConsumeFailureFallsBack ==
    raised \in {"event loop", "events()"} =>
        \E i \in 1..Len(requests) :
            /\ requests[i].method = "tasks/send"
            /\ requests[i].agent = agent_type

\* C9: concurrent calls on one client do not interfere: no two requests carry
\* the same task id, and in each request the envelope id and params.id come
\* from the same task id.
C9_NoInterference ==
    /\ \A i, j \in 1..Len(requests) :
         i # j => requests[i].params_id # requests[j].params_id
    /\ \A i \in 1..Len(requests) : requests[i].id.task = requests[i].params_id

\* C10: once the loop over a stream has been left (final event, error
\* envelope or end of the stream), the connection of that stream is not open.
C10_ConnectionReleased ==
    (client.kind = "stream" /\ pc = "done") => conn[Target(agent_type)] # "open"

\* C11: every task request of a client instance carries the session id the
\* instance holds, the same in all of them (a subscribe and the send after
\* it included), and the two instances hold different session ids.
C11_SessionStable ==
    /\ \A i \in TaskRequests : requests[i].sessionId = session_id[requests[i].agent]
    /\ \A i, j \in TaskRequests :
         requests[i].agent = requests[j].agent =>
             requests[i].sessionId = requests[j].sessionId
    /\ \A a, b \in Agents : a # b => session_id[a] # session_id[b]

\* C11 witness: a refused subscribe, then a send on the same instance.
C11_Witness ==
    /\ Len(requests) = 2
    /\ requests[1].method = "tasks/sendSubscribe"
    /\ replies[1].outcome = "refused"
    /\ requests[2].method = "tasks/send"
    /\ requests[2].sessionId = requests[1].sessionId

\* C12: the task ids sent in params.id by the calls made one after the other
\* on a client instance are pairwise different.
C12_FreshTaskIds ==
    \A i, j \in TaskRequests :
        i # j => requests[i].params_id # requests[j].params_id

\* C12 witness: a failed subscribe, then a send, with different task ids.
C12_Witness ==
    /\ Len(requests) = 2
    /\ requests[1].method = "tasks/sendSubscribe"
    /\ replies[1].outcome = "httperr"
    /\ requests[2].method = "tasks/send"
    /\ requests[1].params_id # requests[2].params_id

\* C13: past decide_agent the label is one of the closed set: 'sql', 'rag'
\* or the none label 'nothing'.
C13_NormalizedToNone ==
    (pc # "decide" /\ raised # "decide_agent") =>
        agent_type \in {"sql", "rag", "nothing"}

\* C14: no operation of the client raises, and on a transport failure, a
\* failing status or a malformed response discover_agent returns {},
\* send_task returns {} and send_task_subscribe returns None.
C14_ClientNeverRaises ==
    /\ raised = "none"
    /\ replies # <<>> =>
         /\ (LastReply.method = "GET" /\ FailedResponse(LastReply.resp))
                => client = EmptyDict
         /\ (LastReply.method = "tasks/send" /\ FailedSendResponse(LastReply.resp))
                => client = EmptyDict
         /\ (LastReply.method = "tasks/sendSubscribe" /\ LastReply.outcome # "ok")
                => client = None

\* C14 witness: a discovery that failed, then a send whose POST was refused.
C14_Witness ==
    /\ Len(replies) = 2
    /\ replies[1].method = "GET"
    /\ ~replies[1].resp.http_ok
    /\ replies[2].method = "tasks/send"
    /\ replies[2].resp.transport = "refused"
    /\ client = EmptyDict

\* C15: a successful single-shot call returns the first text-typed part of
\* the response's message, whatever the parts before it.
C15_FirstTextPart ==
    (/\ replies # <<>>
     /\ LastReply.method = "tasks/send"
     /\ SuccessfulWithText(LastReply.resp)) =>
        client = Str(FirstTextPart(LastReply.resp.parts))

\* C16: once the loop over a stream is left, content is the last text-typed
\* part of the last status event read that has one ("" if none has): the text
\* of one part, never several joined.
C16_LastWriterWins ==
    (client.kind = "stream" /\ pc = "done") =>
        /\ final_response.content = LastRecordedText
        /\ final_response.content \in Texts \cup {""}

\* C16 witness: two updates with text, the second with two text parts and an
\* error that ends the loop.
C16_Witness ==
    /\ client.kind = "stream"
    /\ pc = "done"
    /\ Len(seen) = 2
    /\ seen[1].msg.parts = <<TextPart("a")>>
    /\ seen[2].msg.parts = <<TextPart("a"), TextPart("b")>>
    /\ seen[2].hasError
    /\ final_response.content = "b"

C18_ErrorFieldWins ==
    \A k \in 1..Len(seen) :
        (seen[k].kind = "envelope" /\ seen[k].hasError) =>
            /\ k = Len(seen)
            /\ final_response.status = "error"
            /\ final_response.error = seen[k].error
            /\ final_response.content =
                 FoldFrom(InitialResponse, SubSeq(seen, 1, k - 1)).fr.content

\* C19: when the stream ends without a final or error marker, status is
\* still incomplete, content is the last recorded text ("" if none) and that
\* content is the assistant entry appended to the history.
C19_StreamEndKeepsLast ==
    EndedWithoutMarker =>
        /\ final_response.status = "incomplete"
        /\ final_response.error = NoError
        /\ final_response.content = LastRecordedText
        /\ Len(messages) = 2
        /\ messages[2] = [role |-> "assistant", content |-> LastRecordedText]

\* C19 witness: one update with text, then the stream ends.
C19_Witness ==
    /\ EndedWithoutMarker
    /\ Len(seen) = 1
    /\ HasText(seen[1].msg)
    /\ messages[2].content = "a"

\* C20: the requests of one query go to the agent the label names, at most
\* one is a tasks/sendSubscribe and at most one a tasks/send, and a tasks/send
\* follows a tasks/sendSubscribe to the same agent that did not give a stream.
C20_ExclusiveOrdered ==
    /\ \A i \in 1..Len(requests) : requests[i].agent = Target(agent_type)
    /\ Cardinality(SubscribeIdx) <= 1
    /\ Cardinality(SendIdx) <= 1
    /\ \A i \in SendIdx :
         /\ i > 1
         /\ requests[i - 1].method = "tasks/sendSubscribe"
         /\ requests[i - 1].agent = requests[i].agent
         /\ replies[i - 1].outcome # "ok"

\* C20 witness: a subscribe answered with a failing status, then a send.
C20_Witness ==
    /\ pc = "returned"
    /\ Len(requests) = 2
    /\ replies[1].outcome = "httperr"
    /\ requests[2].method = "tasks/send"

====
